---- MODULE Spec2Model ----
(***************************************************************************)
(* A model of uncertainpy's RunModel (src/src/uncertainpy/run_model.py):   *)
(* the dispatch of parameter sets to a worker pool (evaluate_nodes), the   *)
(* NaN regularizer (regularize_nan_results), the adaptivity detector       *)
(* (is_adaptive), the interpolation aligner (apply_interpolation) and the  *)
(* result assembler (results_to_data).                                     *)
(*                                                                         *)
(* A numpy array is a record [shape, data]: shape is the tuple np.shape    *)
(* returns and data the elements in C order.  A Python scalar is the 0-d   *)
(* array with shape << >> and one element.  np.nan is the element NaN.     *)
(***************************************************************************)
EXTENDS Integers, Sequences, FiniteSets, TLC

VARIABLES
    pc,                 \* position of the operation in progress
    results,            \* the list of run records (one dict per run)
    input,              \* the list as it was passed in (history)
    once,               \* the list after the first regularization (history)
    np_none_shape,      \* what this numpy build does with np.full(None, ...)
    err,                \* the exception that left the operation: <<type, feature, message>>
    arg_feature,        \* is_adaptive's argument `feature`
    t_interpolate,      \* the list of candidate time arrays (lines 234, 136)
    interpolation,      \* the list of interpolation objects (lines 235, 136)
    ret,                \* what the operation returned
    data,               \* results_to_data's Data object
    model_adaptive,     \* self.model.adaptive
    features_adaptive,  \* self.features.adaptive
    stored,             \* the features the storing loop has been through
    nodes,              \* evaluate_nodes' argument: the sampled values
    uncertain_parameters,   \* evaluate_nodes' argument: the names
    suppress_model_graphics,
    CPUs,
    model_parameters,   \* the parameter sets handed to pool.imap
    vdisplay,           \* the Xvfb display: its state and how often it was started
    pool,               \* the worker pool: tasks taken, running and finished
    raises              \* the runs in which the model or a feature raises

regVars == <<once, np_none_shape>>
interpVars == <<t_interpolate, interpolation>>
dataVars == <<data, model_adaptive, features_adaptive, stored>>
evalVars == <<nodes, uncertain_parameters, suppress_model_graphics, CPUs,
              model_parameters, vdisplay, pool, raises>>

vars == <<pc, results, input, err, arg_feature, ret,
          regVars, interpVars, dataVars, evalVars>>

\* ----------------------------------------------------------------- bounds
MaxRuns == 2            \* runs in an ensemble that is regularized or assembled
MaxEnsemble == 3        \* runs in an ensemble given to is_adaptive or apply_interpolation
MaxLen == 2             \* points of a 1-D output or time axis
MaxColumns == 3         \* columns of nodes: parameter sets of one evaluate_nodes call
MaxCPUs == 2            \* worker processes of the pool

\* ----------------------------------------------------------------- numpy
NaN == -1

\* The value of a variable that holds None.
None == <<-1>>

NoError == <<"", "", "">>

RECURSIVE Size(_)
Size(shape) == IF shape = << >> THEN 1 ELSE Head(shape) * Size(Tail(shape))

Array(shape, elems) == [shape |-> shape, data |-> elems]
Scalar(v) == Array(<< >>, <<v>>)
Vec(elems) == Array(<<Len(elems)>>, elems)

np_shape(a) == a.shape
np_ndim(a) == Len(a.shape)

\* np.all(np.isnan(a)): true of an array with no element at all.
all_isnan(a) == \A k \in 1..Len(a.data) : a.data[k] = NaN

\* np.full(shape, np.nan, dtype=float) for a shape that is a tuple.
np_full_nan(shape) == Array(shape, [k \in 1..Size(shape) |-> NaN])

\* The value of e, computed once where it is bound (TLC evaluates a LET
\* definition again at every use).
Value(e) == CHOOSE v \in {e} : TRUE

\* ------------------------------------------------- regularize_nan_results
Keys == <<"model", "feature">>      \* results[0].keys(), in iteration order

\* Lines 562-566: the shape of the first result that is not only nan; the
\* variable shape keeps its value when there is none.
FirstValidShape(res, feature, component, shape) ==
    LET valid == {i \in 1..Len(res) : ~all_isnan(res[i][feature][component])}
    IN  IF valid = {} THEN shape
        ELSE np_shape(res[CHOOSE i \in valid : \A j \in valid : i <= j][feature][component])

\* Lines 570-573 with the write one index too low (Python wraps index -1 to
\* the last element).
RECURSIVE FillOffByOne(_, _, _, _, _, _)
FillOffByOne(res, feature, component, shape, i, strict) ==
    IF i > Len(res) THEN [results |-> res, raised |-> FALSE]
    ELSE LET U == res[i][feature][component]
             j == IF i = 1 THEN Len(res) ELSE i - 1
         IN  IF all_isnan(U) /\ np_shape(U) # shape
             THEN IF shape = None /\ strict
                  THEN [results |-> res, raised |-> TRUE]
                  ELSE FillOffByOne(
                          [res EXCEPT ![j][feature][component] =
                              np_full_nan(IF shape = None THEN << >> ELSE shape)],
                          feature, component, shape, i + 1, strict)
             ELSE FillOffByOne(res, feature, component, shape, i + 1, strict)

FillInvalidOffByOne(res, feature, component, shape, strict) ==
    FillOffByOne(res, feature, component, shape, 1, strict)

\* Lines 570-573: every result that is only nan and whose shape is not
\* `shape` is replaced by np.full(shape, nan).  With shape None the call is
\* np.full(None, nan): a 0-d array on a numpy that takes None for (), a
\* TypeError on a numpy that does not (strict); it is then the first
\* replacement that raises, before any entry of the feature is written.
FillInvalid(res, feature, component, shape, strict) ==
    LET wrong == {i \in 1..Len(res) :
                    /\ all_isnan(res[i][feature][component])
                    /\ np_shape(res[i][feature][component]) # shape}
    IN  IF wrong # {} /\ shape = None /\ strict
        THEN [results |-> res, raised |-> TRUE]
        ELSE [results |->
                [i \in 1..Len(res) |->
                    IF i \in wrong
                    THEN [res[i] EXCEPT ![feature][component] =
                            np_full_nan(IF shape = None THEN << >> ELSE shape)]
                    ELSE res[i]],
              raised |-> FALSE]

\* Lines 560-573: the loop over the features; shape is set once, before the
\* loop (line 557), and is carried from one feature to the next.
RECURSIVE RegularizeFeatures(_, _, _, _, _)
RegularizeFeatures(res, component, f, shape, strict) ==
    IF f > Len(Keys) THEN [results |-> res, raised |-> FALSE]
    ELSE LET s == Value(FirstValidShape(res, Keys[f], component, shape))
             filled == Value(FillInvalid(res, Keys[f], component, s, strict))
         IN  IF filled.raised THEN filled
             ELSE RegularizeFeatures(filled.results, component, f + 1, s, strict)

\* Lines 551-575.
regularize(res, component, strict) ==
    IF Len(res) = 0 THEN [results |-> res, raised |-> TRUE]
    ELSE RegularizeFeatures(res, component, 1, None, strict)

\* Lines 577-580 without line 578: the time arrays are left as they are.
regularize_only_U(res, strict) == regularize(res, "U", strict)

\* Lines 577-580: "U", then "t".
regularize_nan_results(res, strict) ==
    LET u == Value(regularize(res, "U", strict))
    IN  IF u.raised THEN u ELSE regularize(u.results, "t", strict)

\* ------------------------------------------------------------ is_adaptive
\* Lines 435-440: the index of the first result whose U is not only nan,
\* Len(res) + 1 when there is none (u_prev is then never bound).
FirstValidIndex(res, f) ==
    LET valid == {i \in 1..Len(res) : ~all_isnan(res[i][f]["U"])}
    IN  IF valid = {} THEN Len(res) + 1
        ELSE CHOOSE i \in valid : \A j \in valid : i <= j

\* Lines 442-448 without the test of line 444: every later result is
\* compared, the entirely invalid ones too.
RECURSIVE ShapeChangesAnyResult(_, _, _, _)
ShapeChangesAnyResult(res, f, i, u_prev) ==
    IF i > Len(res) THEN FALSE
    ELSE LET u == res[i][f]["U"]
         IN  IF np_shape(u_prev) # np_shape(u) THEN TRUE
             ELSE ShapeChangesAnyResult(res, f, i + 1, u)

\* Lines 442-448: the loop over results[i:]; a result that is not only nan
\* is compared with the last such result seen.
RECURSIVE ShapeChanges(_, _, _, _)
ShapeChanges(res, f, i, u_prev) ==
    IF i > Len(res) THEN FALSE
    ELSE LET u == res[i][f]["U"]
         IN  IF ~all_isnan(u)
             THEN IF np_shape(u_prev) # np_shape(u) THEN TRUE
                  ELSE ShapeChanges(res, f, i + 1, u)
             ELSE ShapeChanges(res, f, i + 1, u_prev)

\* Lines 434-450.
is_adaptive(res, f) ==
    LET i == FirstValidIndex(res, f)
    IN  IF i > Len(res) THEN FALSE
        ELSE ShapeChanges(res, f, i, res[i][f]["U"])

\* ---------------------------------------------------- apply_interpolation
\* The interpolation object Parallel builds for an output: called with a
\* time array it returns one value per point, the output resampled there.
\* The valid outputs here are U[k] = U[1] + t[k] on their own axis 0..n-1.
InterpolationOf(U) ==
    IF np_ndim(U) = 1 /\ ~all_isnan(U)
    THEN [offset |-> U.data[1], nan |-> FALSE]
    ELSE [offset |-> 0, nan |-> TRUE]

\* inter(t)
Call(inter, t) ==
    Array(np_shape(t),
          [k \in 1..Len(t.data) |->
              IF inter.nan \/ t.data[k] = NaN THEN NaN ELSE t.data[k] + inter.offset])

\* len(a) of a 1-D array.
py_len(a) == a.shape[1]

\* np.argmin: the first index of the least element.
np_argmin(seq) ==
    CHOOSE i \in 1..Len(seq) :
        /\ \A j \in 1..Len(seq) : seq[j] >= seq[i]
        /\ \A j \in 1..(i - 1) : seq[j] > seq[i]

\* np.argmax: the first index of the greatest element.
np_argmax(seq) ==
    CHOOSE i \in 1..Len(seq) :
        /\ \A j \in 1..Len(seq) : seq[j] <= seq[i]
        /\ \A j \in 1..(i - 1) : seq[j] < seq[i]

RECURSIVE Concat(_)
Concat(seqs) == IF seqs = << >> THEN << >> ELSE Head(seqs) \o Concat(Tail(seqs))

\* Whether np.array(rows) is a regular array: all rows have one shape.
Homogeneous(rows) ==
    \A i, j \in 1..Len(rows) : np_shape(rows[i]) = np_shape(rows[j])

\* A Python list of arrays: one axis, the arrays as its elements.  It is
\* also the object array np.array makes of rows of different shapes.
PyList(rows) == Array(<<Len(rows)>>, rows)

\* np.array(rows) for rows of one shape: the rows stacked on a new first axis.
np_array(rows) ==
    IF rows = << >> THEN Array(<<0>>, << >>)
    ELSE Array(<<Len(rows)>> \o np_shape(rows[1]),
               Concat([i \in 1..Len(rows) |-> rows[i].data]))

\* A[i] of a stacked array: row i on the first axis.
AxisRow(A, i) ==
    LET n == Size(Tail(A.shape))
    IN  Array(Tail(A.shape), SubSeq(A.data, (i - 1) * n + 1, i * n))

\* Lines 136-149: the time array with the most points, and every
\* interpolation object called on it.
apply_interpolation(t_interp, interp) ==
    LET lengths == [i \in 1..Len(t_interp) |-> py_len(t_interp[i])]
        index_max_len == np_argmax(lengths)
        t == t_interp[index_max_len]
        interpolated_results == [i \in 1..Len(interp) |-> Call(interp[i], t)]
    IN  [t |-> t, U |-> np_array(interpolated_results)]

\* ------------------------------------------------------------ run records
\* What run i can hold for one feature.  A valid output carries the run's
\* index in its elements, so that a row of a stacked array names its run.
ValidScalar(i) == Scalar(10 * i)
ValidVec(i, n) == Vec([k \in 1..n |-> 10 * i + k])
NanVec(n) == Vec([k \in 1..n |-> NaN])
Arange(n) == Vec([k \in 1..n |-> k - 1])

\* The kinds of array: only nan or valid, 0-d (n = 0) or 1-D of n points.
ArrayKinds == BOOLEAN \X (0..MaxLen)

ArrayOf(i, kind) ==
    IF kind[2] = 0
    THEN (IF kind[1] THEN Scalar(NaN) ELSE ValidScalar(i))
    ELSE (IF kind[1] THEN NanVec(kind[2]) ELSE ValidVec(i, kind[2]))

\* The time axis a collaborator returns beside output U: the points 0..n-1
\* beside n valid points, nan otherwise.
TimeFor(U) ==
    IF np_ndim(U) = 1 /\ ~all_isnan(U) THEN Arange(Len(U.data)) ELSE Scalar(NaN)

\* One feature's entry of a run record.
Entry(U, t) == [U |-> U, t |-> t, interpolation |-> InterpolationOf(U)]

KeySet == {Keys[f] : f \in 1..Len(Keys)}

\* The ensemble of n runs in which the given component ("U" or "t") of
\* feature Keys[o] has kind h in every run, that component of every other
\* feature has kind c[i] in run i, and the other component follows.
EnsembleVarying(n, component, o, c, h) ==
    [i \in 1..n |-> [f \in KeySet |->
        LET a == ArrayOf(i, IF f = Keys[o] THEN h ELSE c[i])
        IN  IF component = "U" THEN Entry(a, TimeFor(a)) ELSE Entry(TimeFor(a), a)]]

\* What the variables a specification does not use hold.
Unused == << >>

NoRegularization == once = << >> /\ np_none_shape = "unset"
NoInterpolation == t_interpolate = Unused /\ interpolation = Unused
NoData ==
    /\ data = Unused
    /\ model_adaptive = FALSE
    /\ features_adaptive = {}
    /\ stored = {}
NoEvaluation ==
    /\ nodes = Unused
    /\ uncertain_parameters = Unused
    /\ suppress_model_graphics = FALSE
    /\ CPUs = 0
    /\ model_parameters = Unused
    /\ vdisplay = Unused
    /\ pool = Unused
    /\ raises = {}

\* ------------------------------------------- specification: regularization
RegInit ==
    /\ pc = "regularize_0"
    /\ \E component \in {"U", "t"} : \E o \in 1..Len(Keys) :
       \E c \in [1..MaxRuns -> ArrayKinds] : \E h \in ArrayKinds :
            results = EnsembleVarying(MaxRuns, component, o, c, h)
    /\ input = results
    /\ once = << >>
    /\ np_none_shape = "unset"
    /\ err = NoError
    /\ arg_feature = ""
    /\ ret = Unused
    /\ NoInterpolation /\ NoData /\ NoEvaluation

Builds == IF np_none_shape = "unset" THEN BOOLEAN ELSE {np_none_shape = "TypeError"}

\* results = self.regularize_nan_results(results), called on the list and
\* then on what the call returned.  The numpy build is settled by the first
\* call that reaches np.full(None, ...).
Regularize ==
    /\ pc \in {"regularize_0", "regularize_1"}
    /\ \E s \in {regularize_nan_results(results, TRUE)} :
       \E strict \in (IF s.raised THEN Builds ELSE {TRUE}) :
       \E r \in {IF strict THEN s ELSE regularize_nan_results(results, FALSE)} :
            /\ results' = r.results
            /\ np_none_shape' = IF s.raised
                                THEN (IF strict THEN "TypeError" ELSE "scalar")
                                ELSE np_none_shape
            /\ IF r.raised
               THEN /\ pc' = "raised"
                    /\ err' = <<"TypeError", "", "np.full(None, nan)">>
                    /\ once' = once
               ELSE /\ pc' = IF pc = "regularize_0" THEN "regularize_1"
                                                    ELSE "regularize_2"
                    /\ err' = err
                    /\ once' = IF pc = "regularize_0" THEN r.results ELSE once
    /\ UNCHANGED <<input, arg_feature, ret, interpVars, dataVars, evalVars>>

RegNext == Regularize

SpecRegularize == RegInit /\ [][RegNext]_vars

\* ------------------------------------------------ specification: is_adaptive
AdaptiveInit ==
    /\ pc = "is_adaptive_0"
    /\ \E n \in 1..MaxEnsemble : \E o \in 1..Len(Keys) :
       \E c \in [1..n -> ArrayKinds] : \E h \in ArrayKinds :
            /\ results = EnsembleVarying(n, "U", o, c, h)
            /\ arg_feature \in KeySet \ {Keys[o]}
    /\ input = results
    /\ err = NoError
    /\ ret = Unused
    /\ NoRegularization /\ NoInterpolation /\ NoData /\ NoEvaluation

\* self.is_adaptive(results, feature)
IsAdaptive ==
    /\ pc = "is_adaptive_0"
    /\ ret' = is_adaptive(results, arg_feature)
    /\ pc' = "is_adaptive_done"
    /\ UNCHANGED <<results, input, err, arg_feature,
                   regVars, interpVars, dataVars, evalVars>>

AdaptiveNext == IsAdaptive

SpecAdaptive == AdaptiveInit /\ [][AdaptiveNext]_vars

\* ---------------------------------------- specification: apply_interpolation
\* The time array of run i with n points: i, i + 1, ...; no two runs share one.
TimeAxis(i, n) == Vec([k \in 1..n |-> i + k - 1])

InterpInit ==
    /\ pc = "apply_interpolation_0"
    /\ \E n \in 1..MaxEnsemble :
       \E len \in [1..n -> 1..MaxLen] : \E invalid \in [1..n -> BOOLEAN] :
            /\ t_interpolate = [i \in 1..n |-> TimeAxis(i, len[i])]
            /\ interpolation = [i \in 1..n |-> [offset |-> 10 * i, nan |-> invalid[i]]]
    /\ results = Unused
    /\ input = Unused
    /\ err = NoError
    /\ arg_feature = ""
    /\ ret = Unused
    /\ NoRegularization /\ NoData /\ NoEvaluation

\* self.apply_interpolation(t_interpolate, interpolation)
ApplyInterpolation ==
    /\ pc = "apply_interpolation_0"
    /\ ret' = apply_interpolation(t_interpolate, interpolation)
    /\ pc' = "apply_interpolation_done"
    /\ UNCHANGED <<results, input, err, arg_feature,
                   regVars, interpVars, dataVars, evalVars>>

InterpNext == ApplyInterpolation

SpecInterp == InterpInit /\ [][InterpNext]_vars

\* ------------------------------------------------ create_model_parameters
\* self.parameters: the declared parameters with their fixed values
\* (examples/brunel/uq_brunel_function.py, lines 15-16).
Parameters == <<[name |-> "eta", value |-> 2], [name |-> "g", value |-> 5]>>

ParameterNames == {Parameters[q].name : q \in 1..Len(Parameters)}

\* nodes is [ndim, val]: val is the list of rows (one per uncertain
\* parameter) of a 2-D array, the list of values of a 1-D array.
\* len(nodes.T): the number of columns.
NumColumns(nd) == IF nd.ndim = 1 THEN Len(nd.val) ELSE Len(nd.val[1])

\* Lines 374-376: column i of nodes.T; the 0-d element of a 1-D array is
\* wrapped in a list.
Node(nd, i) ==
    IF nd.ndim = 1 THEN <<nd.val[i]>>
    ELSE [j \in 1..Len(nd.val) |-> nd.val[j][i]]

\* Lines 379-387 with the fixed values written last: every declared
\* parameter holds its fixed value.
ParameterSetDefaultsLast(node, names) ==
    [q \in ParameterNames |->
        Parameters[CHOOSE r \in 1..Len(Parameters) : Parameters[r].name = q].value]

\* Lines 379-385: the sampled values by name, then the fixed value of every
\* declared parameter that has none yet.
ParameterSet(node, names) ==
    [q \in ParameterNames |->
        IF \E j \in 1..Len(names) : names[j] = q
        THEN node[CHOOSE j \in 1..Len(names) :
                    names[j] = q /\ \A l \in (j + 1)..Len(names) : names[l] # q]
        ELSE Parameters[CHOOSE r \in 1..Len(Parameters) : Parameters[r].name = q].value]

\* Lines 373-389.
create_model_parameters(nd, names) ==
    [i \in 1..NumColumns(nd) |-> ParameterSet(Node(nd, i), names)]

\* --------------------------------- specification: create_model_parameters
\* The lists of uncertain parameter names: some of the declared parameters,
\* in any order.
NameLists == {<<"eta">>, <<"g">>, <<"eta", "g">>, <<"g", "eta">>}

\* The values a node takes: the fixed value of "eta" among them.
NodeValues == 1..2

ParamsInit ==
    /\ pc = "create_model_parameters_0"
    /\ uncertain_parameters \in NameLists
    /\ \E n \in 1..MaxColumns :
       \E v \in [1..Len(uncertain_parameters) -> [1..n -> NodeValues]] :
            \/ nodes = [ndim |-> 2, val |-> v]
            \/ /\ Len(uncertain_parameters) = 1
               /\ nodes = [ndim |-> 1, val |-> v[1]]
    /\ model_parameters = Unused
    /\ suppress_model_graphics = FALSE
    /\ CPUs = 0
    /\ vdisplay = Unused
    /\ pool = Unused
    /\ raises = {}
    /\ results = Unused
    /\ input = Unused
    /\ err = NoError
    /\ arg_feature = ""
    /\ ret = Unused
    /\ NoRegularization /\ NoInterpolation /\ NoData

\* self.create_model_parameters(nodes, uncertain_parameters)
CreateModelParameters ==
    /\ pc = "create_model_parameters_0"
    /\ model_parameters' = create_model_parameters(nodes, uncertain_parameters)
    /\ ret' = model_parameters'
    /\ pc' = "create_model_parameters_done"
    /\ UNCHANGED <<results, input, err, arg_feature, regVars, interpVars, dataVars,
                   nodes, uncertain_parameters, suppress_model_graphics, CPUs,
                   vdisplay, pool, raises>>

ParamsNext == CreateModelParameters

SpecParams == ParamsInit /\ [][ParamsNext]_vars

\* ------------------------------------------------------------ evaluate_nodes
\* self._parallel.run(parameters): the run record of one parameter set.  The
\* model here returns its parameters as its output.
ParallelRun(p) ==
    [f \in KeySet |-> Entry(Vec(<<p["eta"], p["g"]>>), Arange(2))]

\* The parameter sets a worker has finished and the loop has not yet been
\* given, in any order: pool.imap_unordered.
YieldableAnyOrder == DOMAIN pool.finished

\* Line 330, pool.imap: the loop is given the result of the next parameter
\* set in submission order, once a worker has finished it.
Yieldable == {Len(results) + 1} \cap DOMAIN pool.finished

EvalInit ==
    /\ pc = "evaluate_nodes_0"
    /\ suppress_model_graphics \in BOOLEAN
    /\ CPUs \in 1..MaxCPUs
    /\ \E n \in 1..MaxColumns : \E v \in [1..n -> 0..1] :
        /\ \/ /\ nodes = [ndim |-> 2, val |-> <<v, [i \in 1..n |-> 10 + i]>>]
              /\ uncertain_parameters = <<"eta", "g">>
           \/ /\ nodes = [ndim |-> 2, val |-> <<v>>]
              /\ uncertain_parameters = <<"g">>
           \/ /\ nodes = [ndim |-> 1, val |-> v]
              /\ uncertain_parameters = <<"eta">>
        /\ raises \in SUBSET (1..n)
    /\ model_parameters = Unused
    /\ vdisplay = [state |-> "none", starts |-> 0]
    /\ pool = Unused
    /\ results = Unused
    /\ input = Unused
    /\ err = NoError
    /\ arg_feature = ""
    /\ ret = Unused
    /\ NoRegularization /\ NoInterpolation /\ NoData

\* Lines 322-330: the display is started, the pool made, the parameter sets
\* built and handed to pool.imap.
StartEvaluation ==
    /\ pc = "evaluate_nodes_0"
    /\ vdisplay' = IF suppress_model_graphics
                   THEN [state |-> "started", starts |-> vdisplay.starts + 1]
                   ELSE vdisplay
    /\ results' = << >>
    /\ model_parameters' = create_model_parameters(nodes, uncertain_parameters)
    /\ pool' = [taken |-> 0, running |-> {}, finished |-> << >>, overtaken |-> FALSE]
    /\ pc' = "imap"
    /\ UNCHANGED <<input, err, arg_feature, ret, regVars, interpVars, dataVars,
                   nodes, uncertain_parameters, suppress_model_graphics, CPUs, raises>>

\* A free worker takes the next parameter set of the task queue.
WorkerTake ==
    /\ pc \in {"imap", "raised"}
    /\ pool.taken < Len(model_parameters)
    /\ Cardinality(pool.running) < CPUs
    /\ pool' = [pool EXCEPT !.taken = @ + 1, !.running = @ \cup {pool.taken + 1}]
    /\ UNCHANGED <<pc, results, input, err, arg_feature, ret, regVars, interpVars,
                   dataVars, nodes, uncertain_parameters, suppress_model_graphics,
                   CPUs, model_parameters, vdisplay, raises>>

\* A worker finishes self._parallel.run on its parameter set, with a run
\* record or with the exception the model or a feature raised.
WorkerFinish(i) ==
    /\ pc \in {"imap", "raised"}
    /\ i \in pool.running
    /\ pool' = [pool EXCEPT
                    !.running = @ \ {i},
                    !.finished = [j \in DOMAIN @ \cup {i} |->
                                    IF j = i
                                    THEN [raised |-> i \in raises,
                                          record |-> ParallelRun(model_parameters[i])]
                                    ELSE @[j]],
                    !.overtaken = @ \/ \E j \in pool.running : j < i]
    /\ UNCHANGED <<pc, results, input, err, arg_feature, ret, regVars, interpVars,
                   dataVars, nodes, uncertain_parameters, suppress_model_graphics,
                   CPUs, model_parameters, vdisplay, raises>>

\* Lines 330-334: one turn of the loop; the worker's exception is raised in
\* the loop and leaves evaluate_nodes.
Collect ==
    /\ pc = "imap"
    /\ \E i \in Yieldable :
        /\ pool' = [pool EXCEPT !.finished = [j \in DOMAIN @ \ {i} |-> @[j]]]
        /\ IF pool.finished[i].raised
           THEN /\ pc' = "raised"
                /\ err' = <<"Exception", "", "raised in a worker">>
                /\ results' = results
           ELSE /\ pc' = pc
                /\ err' = err
                /\ results' = Append(results, pool.finished[i].record)
    /\ UNCHANGED <<input, arg_feature, ret, regVars, interpVars, dataVars, nodes,
                   uncertain_parameters, suppress_model_graphics, CPUs,
                   model_parameters, vdisplay, raises>>

\* Lines 336-341: the loop has had every result; the pool is closed, the
\* display stopped, the results returned.
FinishEvaluation ==
    /\ pc = "imap"
    /\ Len(results) = Len(model_parameters)
    /\ vdisplay' = IF suppress_model_graphics
                   THEN [vdisplay EXCEPT !.state = "stopped"]
                   ELSE vdisplay
    /\ ret' = results
    /\ pc' = "returned"
    /\ UNCHANGED <<results, input, err, arg_feature, regVars, interpVars, dataVars,
                   nodes, uncertain_parameters, suppress_model_graphics, CPUs,
                   model_parameters, pool, raises>>

EvalNext ==
    \/ StartEvaluation
    \/ WorkerTake
    \/ \E i \in 1..MaxColumns : WorkerFinish(i)
    \/ Collect
    \/ FinishEvaluation

SpecEval == EvalInit /\ [][EvalNext]_vars

\* ----------------------------------------------------------- results_to_data
ModelName == "model"        \* self.model.name

\* A field of data[feature] that has not been set.
NotSet == Array(None, << >>)

\* The call that set data[feature]["U"]: none yet, the stacking loop, or
\* apply_interpolation (history).
NewFeature == [t |-> NotSet, U |-> NotSet, via |-> "none"]

\* Lines 216-217 without the model's clause.
UndeclaredFeatureOnly(f) ==
    f # ModelName /\ f \notin features_adaptive

\* Lines 216-217: the feature was not declared adaptive by its owner.
Undeclared(f) ==
    \/ f = ModelName /\ ~model_adaptive
    \/ f # ModelName /\ f \notin features_adaptive

\* Lines 225-226 with the detector in place of the declaration.
AdaptiveByDetector(f) == is_adaptive(results, f)

\* Lines 225-226: the feature is to be interpolated.
DeclaredAdaptive(f) ==
    f \in features_adaptive \/ (f = ModelName /\ model_adaptive)

\* Lines 214-219: the features, in order, that would raise.
Raising(res) ==
    {f \in 1..Len(Keys) : is_adaptive(res, Keys[f]) /\ Undeclared(Keys[f])}

\* Lines 237-242 with the two tests in the other order: the model's time
\* array before the feature's own.
CandidateModelFirst(result, f) ==
    IF ~all_isnan(result[ModelName]["t"]) THEN result[ModelName]["t"]
    ELSE IF ~all_isnan(result[f]["t"]) THEN result[f]["t"]
    ELSE NotSet

\* Lines 237-242: the time array run `result` offers for feature f: its own
\* if that is not only nan, else the model's if that is not only nan, else
\* none.
Candidate(result, f) ==
    IF ~all_isnan(result[f]["t"]) THEN result[f]["t"]
    ELSE IF ~all_isnan(result[ModelName]["t"]) THEN result[ModelName]["t"]
    ELSE NotSet

\* Lines 264-266 over reversed(results): the runs taken last to first.
StackedRowsReversed(res, f) ==
    [i \in 1..Len(res) |-> res[Len(res) + 1 - i][f]["U"]]

\* Lines 256-258 and 264-266: the list of every run's U, in run order.
StackedRows(res, f) == [i \in 1..Len(res) |-> res[i][f]["U"]]

\* Lines 234-244: the lists t_interpolate and interpolations as the loop
\* over the runs leaves them: one candidate and one interpolation object per
\* run, in run order, up to the first run that offers no candidate.
Collected(res, f) ==
    LET none == {i \in 1..Len(res) : Candidate(res[i], f) = NotSet}
        last == IF none = {} THEN Len(res)
                ELSE (CHOOSE i \in none : \A j \in none : i <= j) - 1
    IN  [complete |-> none = {},
         t_interpolate |-> [i \in 1..last |-> Candidate(res[i], f)],
         interpolations |-> [i \in 1..last |-> res[i][f]["interpolation"]]]

\* Lines 225-266 for one feature: the new data[feature], or the exception,
\* and the lists collected where the feature went through lines 233-244.
StoreOne(res, f) ==
    IF DeclaredAdaptive(f) /\ np_ndim(res[1][f]["U"]) >= 2
    THEN [raised |-> TRUE,
          err |-> <<"NotImplementedError", f, "no support for >= 2D interpolation">>,
          entry |-> NewFeature, collects |-> FALSE, collected |-> << >>]
    ELSE IF DeclaredAdaptive(f) /\ np_ndim(res[1][f]["U"]) = 1
    THEN LET c == Value(Collected(res, f))
         IN  IF ~c.complete
             THEN [raised |-> TRUE,
                   err |-> <<"ValueError", f, "Neither feature or model has t values">>,
                   entry |-> NewFeature, collects |-> TRUE, collected |-> c]
             ELSE LET r == Value(apply_interpolation(c.t_interpolate, c.interpolations))
                  IN  [raised |-> FALSE, err |-> NoError,
                       entry |-> [t |-> r.t, U |-> r.U, via |-> "interpolation"],
                       collects |-> TRUE, collected |-> c]
    ELSE [raised |-> FALSE, err |-> NoError,
          entry |-> [t |-> res[1][f]["t"],
                     U |-> PyList(StackedRows(res, f)),
                     via |-> "stack"],
          collects |-> FALSE, collected |-> << >>]

\* Line 273, np.array(data[feature]["U"]): the array apply_interpolation
\* returned as it is, the stacked list as an array.  Rows of different
\* shapes make an object array of the rows on a numpy that allows it.
Coerced(entry) ==
    IF entry.via = "stack" /\ Homogeneous(entry.U.data)
    THEN [entry EXCEPT !.U = np_array(entry.U.data)]
    ELSE entry

Ragged(entry) == entry.via = "stack" /\ ~Homogeneous(entry.U.data)

\* What a run can hold for one feature in this specification: an output of
\* one of ArrayKinds beside its own time axis ("own"), a valid 1-D output with
\* no time axis of its own ("model_t"), or a valid 2-D output ("2d").
DataKinds ==
    ({"own"} \X ArrayKinds)
        \cup ({"model_t"} \X ({FALSE} \X (1..MaxLen)))
        \cup {<<"2d", <<FALSE, MaxLen>>>>}

\* The kinds the feature that is the same in every run takes.
SameKinds ==
    {<<"own", <<FALSE, MaxLen>>>>, <<"own", <<FALSE, 0>>>>, <<"own", <<TRUE, 0>>>>,
     <<"model_t", <<FALSE, MaxLen>>>>}

Valid2D(i, n) == Array(<<2, n>>, [k \in 1..(2 * n) |-> 10 * i + k])

DataEntry(i, kind) ==
    IF kind[1] = "own"
    THEN LET a == ArrayOf(i, kind[2]) IN Entry(a, TimeFor(a))
    ELSE IF kind[1] = "model_t"
    THEN Entry(ValidVec(i, kind[2][2]), Scalar(NaN))
    ELSE Entry(Valid2D(i, kind[2][2]), Arange(kind[2][2]))

\* ------------------------------------------- specification: results_to_data
DataInit ==
    /\ pc = "results_to_data_0"
    /\ \E o \in 1..Len(Keys) : \E c \in [1..MaxRuns -> DataKinds] :
       \E h \in SameKinds :
            results = [i \in 1..MaxRuns |-> [f \in KeySet |->
                          DataEntry(i, IF f = Keys[o] THEN h ELSE c[i])]]
    /\ input = results
    /\ err = NoError
    /\ arg_feature = ""
    /\ ret = Unused
    /\ data = Unused
    /\ model_adaptive \in BOOLEAN
    /\ features_adaptive \in SUBSET (KeySet \ {ModelName})
    /\ stored = {}
    /\ NoRegularization /\ NoInterpolation /\ NoEvaluation

\* Lines 197-208: a Data object with the model's name and every feature added.
AddFeatures ==
    /\ pc = "results_to_data_0"
    /\ data' = [f \in KeySet |-> NewFeature]
    /\ pc' = "results_to_data_regularize"
    /\ UNCHANGED <<results, input, err, arg_feature, ret, regVars, interpVars,
                   model_adaptive, features_adaptive, stored, evalVars>>

\* Line 210: results = self.regularize_nan_results(results)
RegularizeResults ==
    /\ pc = "results_to_data_regularize"
    /\ \E s \in {regularize_nan_results(results, TRUE)} :
       \E strict \in (IF s.raised THEN Builds ELSE {TRUE}) :
       \E r \in {IF strict THEN s ELSE regularize_nan_results(results, FALSE)} :
            /\ results' = r.results
            /\ np_none_shape' = IF s.raised
                                THEN (IF strict THEN "TypeError" ELSE "scalar")
                                ELSE np_none_shape
            /\ IF r.raised
               THEN /\ pc' = "raised"
                    /\ err' = <<"TypeError", "", "np.full(None, nan)">>
               ELSE /\ pc' = "results_to_data_check"
                    /\ err' = err
    /\ UNCHANGED <<input, arg_feature, ret, once, interpVars, dataVars, evalVars>>

\* Lines 214-219: the first feature whose points vary between runs and
\* that was not declared adaptive raises.
CheckAdaptive ==
    /\ pc = "results_to_data_check"
    /\ \E raising \in {Raising(results)} :
        IF raising # {}
        THEN /\ pc' = "raised"
             /\ err' = <<"ValueError",
                         Keys[CHOOSE f \in raising : \A g \in raising : f <= g],
                         "The number of points varies between runs">>
        ELSE /\ pc' = "results_to_data_store"
             /\ err' = err
    /\ UNCHANGED <<results, input, arg_feature, ret, regVars, interpVars, dataVars,
                   evalVars>>

\* Lines 223-266, one iteration of `for feature in data`.
StoreFeature ==
    /\ pc = "results_to_data_store"
    /\ \E f \in {Keys[Cardinality(stored) + 1]} : \E r \in {StoreOne(results, f)} :
        /\ t_interpolate' = IF r.collects THEN r.collected.t_interpolate
                                          ELSE t_interpolate
        /\ interpolation' = IF r.collects THEN r.collected.interpolations
                                          ELSE interpolation
        /\ IF r.raised
           THEN /\ pc' = "raised"
                /\ err' = r.err
                /\ UNCHANGED <<data, stored>>
           ELSE /\ data' = [data EXCEPT ![f] = r.entry]
                /\ stored' = stored \cup {f}
                /\ pc' = IF Cardinality(stored) + 1 = Len(Keys)
                         THEN "results_to_data_coerce" ELSE pc
                /\ err' = err
    /\ UNCHANGED <<results, input, arg_feature, ret, regVars,
                   model_adaptive, features_adaptive, evalVars>>

\* Lines 269-277: every stored t and U through np.array, feature by
\* feature, and the return.  np.array of rows of different shapes is an
\* object array or a ValueError, as the numpy in use has it; the ValueError
\* leaves the loop with the features before that one already arrays.
Coerce ==
    /\ pc = "results_to_data_coerce"
    /\ \E lenient \in (IF \E f \in KeySet : Ragged(data[f]) THEN BOOLEAN ELSE {TRUE}) :
        IF lenient
        THEN /\ data' = [f \in KeySet |-> Coerced(data[f])]
             /\ ret' = data'
             /\ pc' = "returned"
             /\ err' = err
        ELSE \E first \in {CHOOSE f \in 1..Len(Keys) :
                                /\ Ragged(data[Keys[f]])
                                /\ \A g \in 1..(f - 1) : ~Ragged(data[Keys[g]])} :
             /\ pc' = "raised"
             /\ err' = <<"ValueError", Keys[first], "inhomogeneous shape">>
             /\ data' = [f \in KeySet |->
                            IF \E g \in 1..(first - 1) : Keys[g] = f
                            THEN Coerced(data[f]) ELSE data[f]]
             /\ ret' = ret
    /\ UNCHANGED <<results, input, arg_feature, regVars, interpVars,
                   model_adaptive, features_adaptive, stored, evalVars>>

DataNext ==
    \/ AddFeatures
    \/ RegularizeResults
    \/ CheckAdaptive
    \/ StoreFeature
    \/ Coerce

SpecData == DataInit /\ [][DataNext]_vars

\* ------------------------------------------------- claims: regularization
Components == {"U", "t"}
Runs(res) == 1..Len(res)

AllInvalid(res, f, d) == \A i \in Runs(res) : all_isnan(res[i][f][d])

SameShapes(res, f, d) ==
    \A i, j \in Runs(res) : np_shape(res[i][f][d]) = np_shape(res[j][f][d])

\* The first run of res whose entry is not entirely invalid.
FirstValidRun(res, f, d) ==
    CHOOSE i \in Runs(res) :
        /\ ~all_isnan(res[i][f][d])
        /\ \A j \in 1..(i - 1) : all_isnan(res[j][f][d])

\* C5: a feature/component whose entries are all entirely invalid comes out
\* of regularize_nan_results with every entry as it went in.
C5_AllInvalidUntouched ==
    pc = "regularize_1" =>
        \A f \in KeySet : \A d \in Components :
            AllInvalid(input, f, d) =>
                \A i \in Runs(input) : results[i][f][d] = input[i][f][d]

\* C6 as stated: after regularization every feature/component has entries
\* of one shape, or no valid entry.
C6_OneShapeOrNoValid ==
    pc = "regularize_1" =>
        \A f \in KeySet : \A d \in Components :
            SameShapes(results, f, d) \/ AllInvalid(results, f, d)

\* C6 amended: after regularization, in every feature/component that has a
\* valid entry, every entirely invalid entry is an all-nan array of the shape
\* of the first valid entry, and every valid entry is as it went in; so the
\* entries have one shape whenever the valid entries have.
C6_InvalidTakeFirstValidShape ==
    pc = "regularize_1" =>
        \A f \in KeySet : \A d \in Components :
            ~AllInvalid(input, f, d) =>
                LET ref == np_shape(input[FirstValidRun(input, f, d)][f][d])
                IN  /\ \A i \in Runs(input) :
                            IF all_isnan(input[i][f][d])
                            THEN /\ all_isnan(results[i][f][d])
                                 /\ np_shape(results[i][f][d]) = ref
                            ELSE results[i][f][d] = input[i][f][d]
                    /\ (\A i, j \in Runs(input) :
                            ~all_isnan(input[i][f][d]) /\ ~all_isnan(input[j][f][d])
                                => np_shape(input[i][f][d]) = np_shape(input[j][f][d]))
                        => SameShapes(results, f, d)

\* A placeholder of another shape beside a valid entry has been reshaped.
C6_Witness ==
    /\ pc = "regularize_1"
    /\ \E f \in KeySet : \E d \in Components : \E i, j \in Runs(input) :
        /\ all_isnan(input[i][f][d])
        /\ ~all_isnan(input[j][f][d])
        /\ np_shape(input[i][f][d]) # np_shape(input[j][f][d])
        /\ np_shape(results[i][f][d]) = np_shape(input[j][f][d])

\* C7: regularize_nan_results applied to its own result returns that result,
\* entry for entry; it raises, if at all, in the first application.
C7_Idempotent ==
    /\ pc = "regularize_2" => results = once
    /\ pc = "raised" => once = << >>

\* The second application has run on a list the first one changed.
C7_Witness ==
    /\ pc = "regularize_2"
    /\ once # input

\* ----------------------------------------------------- claims: is_adaptive
\* C4: is_adaptive returns true exactly when two outputs of the feature that
\* are not entirely invalid differ in shape; the entirely invalid outputs
\* have no part in the result.
C4_AdaptiveIffValidShapesDiffer ==
    pc = "is_adaptive_done" =>
        (ret <=> \E i, j \in Runs(results) :
                    /\ ~all_isnan(results[i][arg_feature]["U"])
                    /\ ~all_isnan(results[j][arg_feature]["U"])
                    /\ np_shape(results[i][arg_feature]["U"])
                            # np_shape(results[j][arg_feature]["U"]))

\* is_adaptive has returned false on valid outputs of one shape with an
\* entirely invalid output of another shape among them.
C4_Witness ==
    /\ pc = "is_adaptive_done"
    /\ ~ret
    /\ \E i, j, k \in Runs(results) :
        /\ i < j /\ j < k
        /\ ~all_isnan(results[i][arg_feature]["U"])
        /\ all_isnan(results[j][arg_feature]["U"])
        /\ ~all_isnan(results[k][arg_feature]["U"])
        /\ np_shape(results[j][arg_feature]["U"]) # np_shape(results[i][arg_feature]["U"])

\* --------------------------------------------- claims: apply_interpolation
\* C8: the common axis is a candidate with the greatest number of points
\* (the first such), and there is one row per interpolation object, in
\* order, each the object called on the common axis, as long as the axis.
C8_LongestAxisOneRowPerRun ==
    pc = "apply_interpolation_done" =>
        /\ \E i \in 1..Len(t_interpolate) :
            /\ ret.t = t_interpolate[i]
            /\ \A j \in 1..Len(t_interpolate) :
                    py_len(t_interpolate[j]) <= py_len(ret.t)
            /\ \A j \in 1..(i - 1) : py_len(t_interpolate[j]) < py_len(ret.t)
        /\ np_shape(ret.U) = <<Len(interpolation), py_len(ret.t)>>
        /\ \A i \in 1..Len(interpolation) :
            /\ AxisRow(ret.U, i) = Call(interpolation[i], ret.t)
            /\ py_len(AxisRow(ret.U, i)) = py_len(ret.t)

\* The longest candidate is neither the first nor the last, and is not alone.
C8_Witness ==
    /\ pc = "apply_interpolation_done"
    /\ Len(t_interpolate) >= 3
    /\ ret.t = t_interpolate[2]
    /\ py_len(t_interpolate[1]) < py_len(ret.t)
    /\ py_len(t_interpolate[3]) = py_len(ret.t)

\* -------------------------------------------------- claims: evaluate_nodes
\* C1: evaluate_nodes returns one record per column of nodes, the i-th the
\* result of the parameter set built from column i, in whatever order the
\* workers finish; the records gathered so far are always the first ones.
C1_RecordsInSubmissionOrder ==
    /\ pc \in {"imap", "returned", "raised"} =>
        \A i \in 1..Len(results) :
            results[i] = ParallelRun(ParameterSet(Node(nodes, i), uncertain_parameters))
    /\ pc = "returned" =>
        /\ Len(ret) = NumColumns(nodes)
        /\ \A i \in 1..NumColumns(nodes) :
            ret[i] = ParallelRun(ParameterSet(Node(nodes, i), uncertain_parameters))

\* evaluate_nodes has returned the records of distinct columns after a
\* worker finished a later parameter set before an earlier one.
C1_Witness ==
    /\ pc = "returned"
    /\ pool.overtaken
    /\ Len(ret) >= 2
    /\ \A i, j \in 1..Len(ret) : i # j => ret[i] # ret[j]

\* C2: the display is started at most once in a call and is not left started
\* when the call ends, by return or by an exception.
C2_DisplayReleasedOnEveryExit ==
    /\ pc \in {"imap", "returned", "raised"} =>
        vdisplay.starts = (IF suppress_model_graphics THEN 1 ELSE 0)
    /\ pc \in {"returned", "raised"} => vdisplay.state # "started"


\* ----------------------------------------- claims: create_model_parameters
\* nodes[j][i]; nodes[i] where nodes is 1-D.
NodesAt(j, i) == IF nodes.ndim = 1 THEN nodes.val[i] ELSE nodes.val[j][i]

FixedValue(q) == Parameters[CHOOSE r \in 1..Len(Parameters) : Parameters[r].name = q].value

\* C11: create_model_parameters returns one parameter set per column of
\* nodes, in column order; set i holds nodes[j][i] under the j-th uncertain
\* parameter's name and the fixed value under every other declared
\* parameter's name; a 1-D nodes gives one set per element.
C11_OneSetPerColumnSampledOverFixed ==
    pc = "create_model_parameters_done" =>
        /\ Len(ret) = (IF nodes.ndim = 1 THEN Len(nodes.val) ELSE Len(nodes.val[1]))
        /\ \A i \in 1..Len(ret) :
            /\ DOMAIN ret[i] = ParameterNames
            /\ \A j \in 1..Len(uncertain_parameters) :
                  ret[i][uncertain_parameters[j]] = NodesAt(j, i)
            /\ \A q \in ParameterNames :
                  (\A j \in 1..Len(uncertain_parameters) : uncertain_parameters[j] # q)
                      => ret[i][q] = FixedValue(q)

C11_Witness ==
    /\ pc = "create_model_parameters_done"
    /\ nodes.ndim = 1
    /\ Len(ret) >= 2
    /\ ret[1]["eta"] = 1
    /\ ret[2]["eta"] = 2
    /\ ret[1]["g"] = 5

\* ------------------------------------------------- claims: results_to_data
AfterCheck == {"results_to_data_store", "results_to_data_coerce", "returned"}

VariesMessage == "The number of points varies between runs"

\* The features whose points vary between the regularized runs and that
\* were not declared adaptive.
UndeclaredAdaptive ==
    {f \in KeySet : /\ is_adaptive(results, f)
                    /\ IF f = ModelName THEN ~model_adaptive
                                        ELSE f \notin features_adaptive}

\* C3: once the records are regularized, a feature that is_adaptive finds
\* adaptive and that was not declared adaptive makes results_to_data raise a
\* ValueError naming that feature, with no t and no U stored for any
\* feature; the store loop is never entered with such a feature, and
\* the error is raised for no other reason.
C3_UndeclaredAdaptivityRaisesFirst ==
    /\ pc \in AfterCheck => UndeclaredAdaptive = {}
    /\ (pc = "raised" /\ err[1] # "TypeError") =>
          IF UndeclaredAdaptive # {}
          THEN /\ err[1] = "ValueError"
               /\ err[3] = VariesMessage
               /\ err[2] \in UndeclaredAdaptive
               /\ \A f \in KeySet : data[f] = NewFeature
               /\ stored = {}
          ELSE err[3] # VariesMessage

C3_Witness ==
    /\ pc = "raised"
    /\ err = <<"ValueError", ModelName, VariesMessage>>
    /\ UndeclaredAdaptive = {ModelName}
    /\ "feature" \in features_adaptive

\* The rows the stored U of feature f is made of, run by run.
RowsOf(f) ==
    IF ret[f].via = "interpolation"
    THEN [i \in 1..Len(results) |-> Call(results[i][f]["interpolation"], ret[f].t)]
    ELSE [i \in 1..Len(results) |-> results[i][f]["U"]]

\* C9: in the container results_to_data returns, every feature's U has as
\* many rows on its first axis as there are runs, and row i is run i's
\* output (its interpolation on the common time axis where the feature
\* was interpolated).
C9_FirstAxisIsRunsRowPerRun ==
    pc = "returned" =>
        \A f \in KeySet :
            /\ Len(np_shape(ret[f].U)) >= 1
            /\ np_shape(ret[f].U)[1] = Len(results)
            /\ \A i \in 1..Len(results) :
                  (IF Homogeneous(RowsOf(f)) THEN AxisRow(ret[f].U, i)
                                             ELSE ret[f].U.data[i]) = RowsOf(f)[i]

C9_Witness ==
    /\ pc = "returned"
    /\ \E f, g \in KeySet :
        /\ ret[f].via = "interpolation"
        /\ ret[g].via = "stack"
        /\ \E i \in 1..Len(results) : all_isnan(results[i][f]["U"])
        /\ \E i \in 1..Len(results) : ~all_isnan(results[i][f]["U"])
        /\ np_shape(ret[f].U) = <<Len(results), MaxLen>>

\* C10 as stated: a stored feature went through apply_interpolation exactly
\* if is_adaptive finds it adaptive, and one that is_adaptive finds of fixed
\* shape holds the first run's t.
C10_ChosenByDetector ==
    pc \in AfterCheck =>
        \A f \in stored :
            /\ data[f].via = "interpolation" <=> is_adaptive(results, f)
            /\ ~is_adaptive(results, f) => data[f].t = results[1][f]["t"]

\* C10, amended: a stored feature went through apply_interpolation exactly
\* if it was declared adaptive and its output in the first run is 1-D,
\* whatever is_adaptive finds; every other stored feature holds the first
\* run's t and was stacked, and a feature that was not declared adaptive is
\* one that is_adaptive finds of fixed shape.
C10_ChosenByDeclaration ==
    pc \in AfterCheck =>
        \A f \in stored :
            LET declared == f \in features_adaptive \/ (f = ModelName /\ model_adaptive)
            IN  /\ data[f].via = "interpolation"
                      <=> (declared /\ np_ndim(results[1][f]["U"]) = 1)
                /\ data[f].via # "interpolation" =>
                      /\ data[f].via = "stack"
                      /\ data[f].t = results[1][f]["t"]
                /\ ~declared => ~is_adaptive(results, f)

C10_Witness ==
    /\ pc = "returned"
    /\ \E f \in KeySet :
        /\ f \in features_adaptive
        /\ ~is_adaptive(results, f)
        /\ \A i \in 1..Len(results) : ~all_isnan(results[i][f]["U"])
        /\ ret[f].via = "interpolation"


\* Whether feature f was declared adaptive by its owner.
IsDeclared(f) == f \in features_adaptive \/ (f = ModelName /\ model_adaptive)

\* The runs whose output of feature f has two or more dimensions.
RunsOver1D(f) == {i \in 1..Len(results) : np_ndim(results[i][f]["U"]) >= 2}

\* C12: past the adaptivity check, a feature declared adaptive whose output
\* has two or more dimensions in some run, the first or a later one, never
\* has a t or U stored, results_to_data does not get past its store loop,
\* and the error raised for it is the NotImplementedError naming it.
C12_TwoDimensionalNeverStored ==
    pc \in AfterCheck \cup {"raised"} =>
        \A f \in KeySet :
            (IsDeclared(f) /\ RunsOver1D(f) # {}) =>
                /\ data[f] = NewFeature
                /\ pc \notin {"results_to_data_coerce", "returned"}
                /\ (pc = "raised" /\ err[2] = f /\ err[3] # VariesMessage)
                      => err[1] = "NotImplementedError"


NoTimeMessage == "Neither feature or model has t values"

\* Feature f was declared adaptive and its output in the first run is 1-D.
Interpolated1D(f) == IsDeclared(f) /\ np_ndim(results[1][f]["U"]) = 1

\* The runs in which neither feature f nor the model has a time axis that
\* is not entirely invalid.
RunsWithoutTime(f) ==
    {i \in 1..Len(results) : /\ all_isnan(results[i][f]["t"])
                             /\ all_isnan(results[i][ModelName]["t"])}

\* The feature's own time axis in run i if it is not entirely invalid, else
\* the model's.
OwnElseModel(f, i) ==
    IF \E k \in 1..Len(results[i][f]["t"].data) : results[i][f]["t"].data[k] # NaN
    THEN results[i][f]["t"]
    ELSE results[i][ModelName]["t"]

\* The feature the lists t_interpolate and interpolation were last
\* collected for: the last stored feature that was interpolated.
LastInterpolated ==
    LET done == {f \in 1..Len(Keys) : Keys[f] \in stored /\ data[Keys[f]].via = "interpolation"}
    IN  Keys[CHOOSE f \in done : \A g \in done : g <= f]

\* C13: for a declared-adaptive feature with 1-D output, the lists collected
\* hold for every run, in run order, the feature's own time axis if that is
\* not entirely invalid and else the model's time axis of that run, and the
\* run's interpolation object; if in some run both time axes are entirely
\* invalid, the ValueError is raised for that feature with nothing stored
\* for it, the lists holding the runs before that one.
C13_OwnTimeElseModelTimePerRun ==
    /\ (pc \in AfterCheck /\ \E f \in stored : data[f].via = "interpolation") =>
          /\ RunsWithoutTime(LastInterpolated) = {}
          /\ Len(t_interpolate) = Len(results)
          /\ Len(interpolation) = Len(results)
          /\ \A i \in 1..Len(results) :
                /\ t_interpolate[i] = OwnElseModel(LastInterpolated, i)
                /\ ~all_isnan(t_interpolate[i])
                /\ interpolation[i] = results[i][LastInterpolated]["interpolation"]
    /\ pc \in AfterCheck \cup {"raised"} =>
          \A f \in KeySet :
              (Interpolated1D(f) /\ RunsWithoutTime(f) # {}) =>
                  /\ data[f] = NewFeature
                  /\ pc \notin {"results_to_data_coerce", "returned"}
    /\ (pc = "raised" /\ err[3] = NoTimeMessage) =>
          /\ err[1] = "ValueError"
          /\ Interpolated1D(err[2])
          /\ RunsWithoutTime(err[2]) # {}
          /\ data[err[2]] = NewFeature
          /\ Len(t_interpolate) = Len(interpolation)
          /\ Len(t_interpolate) + 1 \in RunsWithoutTime(err[2])
          /\ \A i \in 1..Len(t_interpolate) :
                /\ i \notin RunsWithoutTime(err[2])
                /\ t_interpolate[i] = OwnElseModel(err[2], i)
                /\ interpolation[i] = results[i][err[2]]["interpolation"]

\* A feature was interpolated on a time axis of its own in one run and on
\* the model's, which differs from its own, in another.
C13_Witness ==
    /\ pc = "returned"
    /\ ret["feature"].via = "interpolation"
    /\ \E i, j \in 1..Len(results) :
        /\ t_interpolate[i] = results[i]["feature"]["t"]
        /\ t_interpolate[i] # results[i][ModelName]["t"]
        /\ all_isnan(results[j]["feature"]["t"])
        /\ t_interpolate[j] = results[j][ModelName]["t"]

============================================================================
